---- MODULE Spec2Model ----
(***************************************************************************)
(* Data-access layer of the auth service: the users table (UserDB), the    *)
(* refresh_tokens table (RefreshTokenDB) and the Redis token cache         *)
(* (TokenCache).                                                           *)
(*                                                                         *)
(* Create and Update first write into the caller's record (uuid.New(),     *)
(* time.Now()) and then send one SQL statement.  Callers run concurrently, *)
(* so each of these two handlers is two steps: ...Begin is the Go code up  *)
(* to the Exec call, ...Exec is the statement as the database executes it  *)
(* (atomically) together with the error handling that follows it; between *)
(* the two the call is in flight.  Read, Delete and Set touch no caller    *)
(* state before their single round trip and are one step each.             *)
(* last is the call that has just returned; Return hands the result to     *)
(* its caller before the next step is taken.                               *)
(*                                                                         *)
(* Instants are integers (clock readings of time.Now()).  A TIMESTAMP      *)
(* column keeps a coarser resolution than the Go clock: ToTimestamp.       *)
(* A statement either reaches the database (up = TRUE) or fails on the     *)
(* connection / the context (up = FALSE).                                  *)
(***************************************************************************)
EXTENDS Integers, FiniteSets

\* ---- bounds of the model
MaxUUID == 2
MaxTime == 2
TimestampRes == 2
MaxInflight == 2

\* ---- the values callers pass in
Profiles ==
    {[Name |-> "Alice", Email |-> "alice@example.com",
      PasswordHash |-> "hashedpassword"],
     [Name |-> "Alice Updated", Email |-> "alice_updated@example.com",
      PasswordHash |-> "newhashedpassword"]}
Emails == {p.Email : p \in Profiles}
TokenStrings == {"example_refresh_token", "other_refresh_token"}
Owners == {7}

VARIABLES users, tokens, cache, now, uuidCount, inflight, last, fresh,
          createdUsers, deletedUsers, createdTokens, deletedTokens

vars == <<users, tokens, cache, now, uuidCount, inflight, last, fresh,
          createdUsers, deletedUsers, createdTokens, deletedTokens>>

\* ---- domain records (package domain)
User(id, name, email, hash, createdAt, updatedAt) ==
    [ID |-> id, Name |-> name, Email |-> email, PasswordHash |-> hash,
     CreatedAt |-> createdAt, UpdatedAt |-> updatedAt]

RefreshToken(id, userID, refreshToken, expiresAt, createdAt, updatedAt) ==
    [ID |-> id, UserID |-> userID, RefreshToken |-> refreshToken,
     ExpiresAt |-> expiresAt, CreatedAt |-> createdAt, UpdatedAt |-> updatedAt]

\* the zero values of uuid.UUID and time.Time
NilUUID == 0
ZeroTime == 0

\* ---- what the database and the drivers do with a value
\* a Go instant as a TIMESTAMP column stores it, and as Scan gives it back
ToTimestamp(t) == t \div TimestampRes
FromTimestamp(ts) == ts * TimestampRes

UserRow(u) ==
    [id |-> u.ID, name |-> u.Name, email |-> u.Email, password_hash |-> u.PasswordHash,
     created_at |-> ToTimestamp(u.CreatedAt), updated_at |-> ToTimestamp(u.UpdatedAt)]

\* Scan with two destinations in the wrong order
ScanUserSwapped(r) ==
    User(r.id, r.email, r.name, r.password_hash,
         FromTimestamp(r.created_at), FromTimestamp(r.updated_at))

ScanUser(r) ==
    User(r.id, r.name, r.email, r.password_hash,
         FromTimestamp(r.created_at), FromTimestamp(r.updated_at))

TokenRow(t) ==
    [id |-> t.ID, user_id |-> t.UserID, refresh_token |-> t.RefreshToken,
     expires_at |-> ToTimestamp(t.ExpiresAt),
     created_at |-> ToTimestamp(t.CreatedAt), updated_at |-> ToTimestamp(t.UpdatedAt)]

ScanToken(r) ==
    RefreshToken(r.id, r.user_id, r.refresh_token, FromTimestamp(r.expires_at),
                 FromTimestamp(r.created_at), FromTimestamp(r.updated_at))

\* uuid.New(): an identifier no earlier call has returned
NewUUID(n) == n + 1

\* ---- the result of a call, as the caller sees it: the caller's record as passed
\* (arg) and as the call left it (rec), the error kind and the record returned
Result(op, id, key, arg, rec, err, out, up) ==
    [op |-> op, id |-> id, key |-> key, arg |-> arg, rec |-> rec,
     err |-> err, out |-> out, ran |-> up]

NoResult == Result("none", NilUUID, "", {}, {}, "nil", {}, TRUE)

\* ---- SQL statements on the users table
\* id UUID PRIMARY KEY, email VARCHAR(100) UNIQUE
\* the users table without UNIQUE on email
UsersPrimaryKeyViolated(tbl, row) ==
    \E x \in tbl : x.id = row.id

UsersConstraintViolated(tbl, row) ==
    \E x \in tbl : x.id = row.id \/ x.email = row.email

\* INSERT INTO users ...: the table afterwards, unchanged when the row is rejected
InsertUser(tbl, row) ==
    IF UsersConstraintViolated(tbl, row) THEN tbl ELSE tbl \cup {row}

\* UPDATE users SET name, email, password_hash, updated_at WHERE id = $5
\* an UPDATE that also sets created_at
UpdatedUserRowAll(old, row) ==
    [old EXCEPT !.name = row.name, !.email = row.email,
                !.password_hash = row.password_hash, !.updated_at = row.updated_at,
                !.created_at = row.created_at]

UpdatedUserRow(old, row) ==
    [old EXCEPT !.name = row.name, !.email = row.email,
                !.password_hash = row.password_hash, !.updated_at = row.updated_at]

UpdateMatched(tbl, row) == {x \in tbl : x.id = row.id}

UpdateViolatesUnique(tbl, row) ==
    /\ UpdateMatched(tbl, row) # {}
    /\ \E x \in tbl : x.id # row.id /\ x.email = row.email

UpdateUser(tbl, row) ==
    IF UpdateViolatesUnique(tbl, row) THEN tbl
    ELSE {IF x.id = row.id THEN UpdatedUserRow(x, row) ELSE x : x \in tbl}

\* DELETE FROM users WHERE id = $1 / DELETE FROM refresh_tokens WHERE id = $1
\* a DELETE without its WHERE clause
DeleteRowAll(tbl, id) == {}

DeleteRow(tbl, id) == {x \in tbl : x.id # id}

RowsAffected(tbl, id) == Cardinality({x \in tbl : x.id = id})

\* QueryRow(...).Scan(...): the first row of the result set, in whatever order the
\* database produces it (the queries carry no ORDER BY); no row is pgx.ErrNoRows.
\* The value is the set of possible outcomes, each a set of at most one row.
QueryRow(found, up) ==
    IF up /\ found # {} THEN {{x} : x \in found} ELSE {{}}

\* the error a read returns
ReadErr(row, up) ==
    IF ~up THEN "PersistenceError" ELSE IF row = {} THEN "NotFound" ELSE "nil"

\* Update and Delete without the RowsAffected check
ExecErrNoRowsCheck(execFailed, rowsAffected) ==
    IF execFailed THEN "PersistenceError" ELSE "nil"

\* the error Update and Delete return after Exec
ExecErr(execFailed, rowsAffected) ==
    IF execFailed THEN "PersistenceError"
    ELSE IF rowsAffected = 0 THEN "NotFound" ELSE "nil"

\* a step is taken once the previous result has reached its caller
Ready == last = NoResult

\* ---- Init: empty tables, an empty cache, no call in flight
Init ==
    /\ users = {}
    /\ tokens = {}
    /\ cache = {}
    /\ now = 1
    /\ uuidCount = 0
    /\ inflight = {}
    /\ last = NoResult
    /\ fresh = {}
    /\ createdUsers = {}
    /\ deletedUsers = {}
    /\ createdTokens = {}
    /\ deletedTokens = {}

\* ---- the cache as Redis shows it at instant t: expired entries are gone
Purge(entries, t) == {e \in entries : \A x \in e.expireAt : t < x}

\* ---- UserDB.Create
\* lines 24-26: the ID and two clock readings, between which the clock may advance
UserCreateBegin(p) ==
    /\ Ready
    /\ Cardinality(inflight) < MaxInflight
    /\ uuidCount < MaxUUID
    /\ \E d \in 0..1 :
         /\ now + d <= MaxTime
         /\ now' = now + d
         /\ cache' = Purge(cache, now + d)
         /\ inflight' = inflight \cup
               {[op |-> "UserCreate",
                 arg |-> User(NilUUID, p.Name, p.Email, p.PasswordHash,
                              ZeroTime, ZeroTime),
                 rec |-> User(NewUUID(uuidCount), p.Name, p.Email, p.PasswordHash,
                              now, now + d)]}
    /\ uuidCount' = uuidCount + 1
    /\ UNCHANGED <<last, users, tokens, fresh, createdUsers, deletedUsers,
                   createdTokens, deletedTokens>>

\* lines 28-36: the INSERT and its error handling
UserCreateExec(call, up) ==
    /\ Ready
    /\ call \in inflight
    /\ call.op = "UserCreate"
    /\ LET u == call.rec
           row == UserRow(u)
           failed == ~up \/ UsersConstraintViolated(users, row)
       IN  /\ users' = IF up THEN InsertUser(users, row) ELSE users
           /\ last' = Result("UserCreate", u.ID, "", {call.arg}, {u},
                             IF failed THEN "PersistenceError" ELSE "nil", {}, up)
           /\ createdUsers' = IF failed THEN createdUsers ELSE createdUsers \cup {u.ID}
           /\ fresh' = IF failed THEN fresh ELSE fresh \cup {u}
    /\ inflight' = inflight \ {call}
    /\ UNCHANGED <<tokens, cache, now, uuidCount, deletedUsers,
                   createdTokens, deletedTokens>>

\* ---- UserDB.Read
UserRead(id, up) ==
    LET found == {x \in users : x.id = id}
    IN  /\ Ready
        /\ \E row \in QueryRow(found, up) :
              last' = Result("UserRead", id, "", {}, {}, ReadErr(row, up),
                             {ScanUser(x) : x \in row}, up)
        /\ UNCHANGED <<users, tokens, cache, now, uuidCount, inflight, fresh,
                       createdUsers, deletedUsers, createdTokens, deletedTokens>>

\* ---- UserDB.ReadByEmail
UserReadByEmail(email, up) ==
    LET found == {x \in users : x.email = email}
    IN  /\ Ready
        /\ \E row \in QueryRow(found, up) :
              last' = Result("UserReadByEmail", NilUUID, email, {}, {}, ReadErr(row, up),
                             {ScanUser(x) : x \in row}, up)
        /\ UNCHANGED <<users, tokens, cache, now, uuidCount, inflight, fresh,
                       createdUsers, deletedUsers, createdTokens, deletedTokens>>

\* ---- an Update that leaves the caller's record alone until the statement succeeded
UserUpdateBeginUnwritten(id, p, ts) ==
    /\ Ready
    /\ Cardinality(inflight) < MaxInflight
    /\ inflight' = inflight \cup
          {[op |-> "UserUpdate",
            arg |-> User(id, p.Name, p.Email, p.PasswordHash, ts, ts),
            rec |-> User(id, p.Name, p.Email, p.PasswordHash, ts, ts)]}
    /\ UNCHANGED <<last, users, tokens, cache, now, uuidCount, fresh,
                   createdUsers, deletedUsers, createdTokens, deletedTokens>>

\* ---- UserDB.Update
\* line 74: the clock reading written into the caller's record
UserUpdateBegin(id, p, ts) ==
    /\ Ready
    /\ Cardinality(inflight) < MaxInflight
    /\ inflight' = inflight \cup
          {[op |-> "UserUpdate",
            arg |-> User(id, p.Name, p.Email, p.PasswordHash, ts, ts),
            rec |-> User(id, p.Name, p.Email, p.PasswordHash, ts, now)]}
    /\ UNCHANGED <<last, users, tokens, cache, now, uuidCount, fresh,
                   createdUsers, deletedUsers, createdTokens, deletedTokens>>

\* lines 76-87: the UPDATE and its error handling
UserUpdateExec(call, up) ==
    /\ Ready
    /\ call \in inflight
    /\ call.op = "UserUpdate"
    /\ LET u == call.rec
           row == UserRow(u)
           execFailed == ~up \/ UpdateViolatesUnique(users, row)
           rowsAffected == IF execFailed THEN 0
                           ELSE Cardinality(UpdateMatched(users, row))
       IN  /\ users' = IF up THEN UpdateUser(users, row) ELSE users
           /\ last' = Result("UserUpdate", u.ID, "", {call.arg}, {u},
                             ExecErr(execFailed, rowsAffected), {}, up)
           /\ fresh' = IF rowsAffected > 0 THEN {f \in fresh : f.ID # u.ID} ELSE fresh
    /\ inflight' = inflight \ {call}
    /\ UNCHANGED <<tokens, cache, now, uuidCount, createdUsers, deletedUsers,
                   createdTokens, deletedTokens>>

\* ---- UserDB.Delete
UserDelete(id, up) ==
    LET rowsAffected == IF up THEN RowsAffected(users, id) ELSE 0
    IN  /\ Ready
        /\ users' = IF up THEN DeleteRow(users, id) ELSE users
        /\ last' = Result("UserDelete", id, "", {}, {}, ExecErr(~up, rowsAffected), {}, up)
        /\ deletedUsers' = IF rowsAffected > 0 THEN deletedUsers \cup {id}
                           ELSE deletedUsers
        /\ fresh' = IF rowsAffected > 0 THEN {f \in fresh : f.ID # id} ELSE fresh
        /\ UNCHANGED <<tokens, cache, now, uuidCount, inflight, createdUsers,
                       createdTokens, deletedTokens>>

\* ---- SQL statements on the refresh_tokens table
\* id UUID PRIMARY KEY; refresh_token TEXT NOT NULL carries no UNIQUE
TokensConstraintViolated(tbl, row) ==
    \E x \in tbl : x.id = row.id

InsertToken(tbl, row) ==
    IF TokensConstraintViolated(tbl, row) THEN tbl ELSE tbl \cup {row}

\* ---- RefreshTokenDB.Create
TokenCreateBegin(userID, refreshToken, expiresAt) ==
    /\ Ready
    /\ Cardinality(inflight) < MaxInflight
    /\ uuidCount < MaxUUID
    /\ \E d \in 0..1 :
         /\ now + d <= MaxTime
         /\ now' = now + d
         /\ cache' = Purge(cache, now + d)
         /\ inflight' = inflight \cup
               {[op |-> "TokenCreate",
                 arg |-> RefreshToken(NilUUID, userID, refreshToken, expiresAt,
                                      ZeroTime, ZeroTime),
                 rec |-> RefreshToken(NewUUID(uuidCount), userID, refreshToken, expiresAt,
                                      now, now + d)]}
    /\ uuidCount' = uuidCount + 1
    /\ UNCHANGED <<last, users, tokens, fresh, createdUsers, deletedUsers,
                   createdTokens, deletedTokens>>

TokenCreateExec(call, up) ==
    /\ Ready
    /\ call \in inflight
    /\ call.op = "TokenCreate"
    /\ LET t == call.rec
           row == TokenRow(t)
           failed == ~up \/ TokensConstraintViolated(tokens, row)
       IN  /\ tokens' = IF up THEN InsertToken(tokens, row) ELSE tokens
           /\ last' = Result("TokenCreate", t.ID, "", {call.arg}, {t},
                             IF failed THEN "PersistenceError" ELSE "nil", {}, up)
           /\ createdTokens' = IF failed THEN createdTokens ELSE createdTokens \cup {t.ID}
    /\ inflight' = inflight \ {call}
    /\ UNCHANGED <<users, cache, now, uuidCount, fresh, createdUsers, deletedUsers,
                   deletedTokens>>

\* ---- RefreshTokenDB.Read
TokenRead(id, up) ==
    LET found == {x \in tokens : x.id = id}
    IN  /\ Ready
        /\ \E row \in QueryRow(found, up) :
              last' = Result("TokenRead", id, "", {}, {}, ReadErr(row, up),
                             {ScanToken(x) : x \in row}, up)
        /\ UNCHANGED <<users, tokens, cache, now, uuidCount, inflight, fresh,
                       createdUsers, deletedUsers, createdTokens, deletedTokens>>

\* ---- RefreshTokenDB.ReadByRefreshToken
TokenReadByRefreshToken(refreshToken, up) ==
    LET found == {x \in tokens : x.refresh_token = refreshToken}
    IN  /\ Ready
        /\ \E row \in QueryRow(found, up) :
              last' = Result("TokenReadByRefreshToken", NilUUID, refreshToken, {}, {},
                             ReadErr(row, up), {ScanToken(x) : x \in row}, up)
        /\ UNCHANGED <<users, tokens, cache, now, uuidCount, inflight, fresh,
                       createdUsers, deletedUsers, createdTokens, deletedTokens>>

\* ---- a Delete that also drops the token's cache entry
TokenDeleteInvalidating(id, up) ==
    LET rowsAffected == IF up THEN Cardinality({x \in tokens : x.id = id}) ELSE 0
    IN  /\ Ready
        /\ tokens' = IF up THEN {x \in tokens : x.id # id} ELSE tokens
        /\ cache' = {e \in cache : e.key # <<"uuid", id>>}
        /\ last' = Result("TokenDelete", id, "", {}, {}, ExecErr(~up, rowsAffected), {}, up)
        /\ deletedTokens' = IF rowsAffected > 0 THEN deletedTokens \cup {id}
                            ELSE deletedTokens
        /\ UNCHANGED <<users, now, uuidCount, inflight, fresh, createdUsers,
                       deletedUsers, createdTokens>>

\* ---- RefreshTokenDB.Delete
TokenDelete(id, up) ==
    LET rowsAffected == IF up THEN RowsAffected(tokens, id) ELSE 0
    IN  /\ Ready
        /\ tokens' = IF up THEN DeleteRow(tokens, id) ELSE tokens
        /\ last' = Result("TokenDelete", id, "", {}, {}, ExecErr(~up, rowsAffected), {}, up)
        /\ deletedTokens' = IF rowsAffected > 0 THEN deletedTokens \cup {id}
                            ELSE deletedTokens
        /\ UNCHANGED <<users, cache, now, uuidCount, inflight, fresh, createdUsers,
                       deletedUsers, createdTokens>>

\* ---- TokenCache.Set
\* token.ID.String(): the canonical text of the identifier
UUIDString(id) == <<"uuid", id>>

\* token.ExpiresAt.Sub(time.Now())
TTL(token, t) == token.ExpiresAt - t

\* redis Client.Set(ctx, key, value, expiration): go-redis appends PX/EX only for
\* expiration > 0 and KEEPTTL for expiration = -1 (redis.KeepTTL); any other
\* expiration sends a plain SET, which stores the key without an expiry.
\* An entry's expireAt is a set: empty for no expiry, else the instant it lapses.
RedisSet(entries, key, value, expiration, t) ==
    LET old == {e \in entries : e.key = key}
        expireAt == IF expiration > 0 THEN {t + expiration}
                    ELSE IF expiration = -1 THEN UNION {e.expireAt : e \in old}
                    ELSE {}
    IN  (entries \ old) \cup {[key |-> key, value |-> value, expireAt |-> expireAt]}

CacheSet(id, refreshToken, expiresAt, up) ==
    LET token == RefreshToken(id, NilUUID, refreshToken, expiresAt, ZeroTime, ZeroTime)
    IN  /\ Ready
        /\ id \in createdTokens
        /\ cache' = IF up
                    THEN RedisSet(cache, UUIDString(token.ID), token.RefreshToken,
                                  TTL(token, now), now)
                    ELSE cache
        /\ last' = Result("CacheSet", id, "", {token}, {token},
                          IF up THEN "nil" ELSE "CacheError", {}, up)
        /\ UNCHANGED <<users, tokens, now, uuidCount, inflight, fresh, createdUsers,
                       deletedUsers, createdTokens, deletedTokens>>

\* ---- the clock advances
Tick ==
    /\ Ready
    /\ now < MaxTime
    /\ now' = now + 1
    /\ cache' = Purge(cache, now + 1)
    /\ UNCHANGED <<last, users, tokens, uuidCount, inflight, fresh, createdUsers,
                   deletedUsers, createdTokens, deletedTokens>>

\* ---- the result of the last call reaches its caller
Return ==
    /\ last # NoResult
    /\ last' = NoResult
    /\ UNCHANGED <<users, tokens, cache, now, uuidCount, inflight, fresh, createdUsers,
                   deletedUsers, createdTokens, deletedTokens>>

\* ---- the arguments callers choose
ExpiryTimes == {ZeroTime, MaxTime}
KnownIDs == 1..uuidCount

UserStep ==
    \/ \E p \in Profiles : UserCreateBegin(p)
    \/ \E call \in inflight, up \in BOOLEAN : UserCreateExec(call, up)
    \/ \E id \in KnownIDs, up \in BOOLEAN : UserRead(id, up)
    \/ \E email \in Emails, up \in BOOLEAN : UserReadByEmail(email, up)
    \/ \E id \in KnownIDs, p \in Profiles, ts \in {ZeroTime, now} :
          UserUpdateBegin(id, p, ts)
    \/ \E call \in inflight, up \in BOOLEAN : UserUpdateExec(call, up)
    \/ \E id \in KnownIDs, up \in BOOLEAN : UserDelete(id, up)

TokenStep ==
    \/ \E o \in Owners, s \in TokenStrings, e \in ExpiryTimes : TokenCreateBegin(o, s, e)
    \/ \E call \in inflight, up \in BOOLEAN : TokenCreateExec(call, up)
    \/ \E id \in KnownIDs, up \in BOOLEAN : TokenRead(id, up)
    \/ \E s \in TokenStrings, up \in BOOLEAN : TokenReadByRefreshToken(s, up)
    \/ \E id \in KnownIDs, up \in BOOLEAN : TokenDelete(id, up)

CacheStep ==
    \E id \in KnownIDs, s \in TokenStrings, e \in ExpiryTimes, up \in BOOLEAN :
        CacheSet(id, s, e, up)

Next == UserStep \/ TokenStep \/ CacheStep \/ Tick \/ Return

Spec == Init /\ [][Next]_vars

\* the two repositories over the database
NextStores == UserStep \/ TokenStep \/ Tick \/ Return
SpecStores == Init /\ [][NextStores]_vars

\* the user store alone, and the token store with its cache alone
NextUsers == UserStep \/ Tick \/ Return
SpecUsers == Init /\ [][NextUsers]_vars

NextTokens == TokenStep \/ CacheStep \/ Tick \/ Return
SpecTokens == Init /\ [][NextTokens]_vars

\* ======================================================================
\* Claims
\* ======================================================================

\* C1: a successful UserDB.Create followed by UserDB.Read of the ID it assigned, with
\* no Update or Delete of that ID in between, returns a record with the Name, Email
\* and PasswordHash passed to Create and the ID Create wrote into the caller's record
\* (fresh holds the caller's records of the Creates not updated or deleted since).
C1_CreateThenRead ==
    (last.op = "UserRead" /\ last.ran) =>
        \A u \in fresh : u.ID = last.id =>
            /\ last.err = "nil"
            /\ Cardinality(last.out) = 1
            /\ \A o \in last.out :
                  /\ o.ID = u.ID
                  /\ o.Name = u.Name
                  /\ o.Email = u.Email
                  /\ o.PasswordHash = u.PasswordHash

C1_Witness ==
    /\ last.op = "UserRead"
    /\ last.err = "nil"
    /\ \E u \in fresh : u.ID = last.id

\* C2: in both stores a row with a given ID is present, and Read(id) succeeds, exactly
\* when a successful Create assigned that ID and no successful Delete(id) followed;
\* a Read(id) that reaches the database after a successful Delete(id) is NotFound.
C2_PresentIffCreatedNotDeleted ==
    /\ {r.id : r \in users} = createdUsers \ deletedUsers
    /\ {r.id : r \in tokens} = createdTokens \ deletedTokens
    /\ last.op = "UserRead" =>
          /\ last.err = "nil" <=> (last.ran /\ last.id \in createdUsers \ deletedUsers)
          /\ (last.ran /\ last.id \in deletedUsers) => last.err = "NotFound"
    /\ last.op = "TokenRead" =>
          /\ last.err = "nil" <=> (last.ran /\ last.id \in createdTokens \ deletedTokens)
          /\ (last.ran /\ last.id \in deletedTokens) => last.err = "NotFound"

C2_Witness ==
    /\ last.op = "TokenRead"
    /\ last.id \in deletedTokens
    /\ last.err = "NotFound"
    /\ deletedUsers # {}

\* C3: UserDB.Update, UserDB.Delete and RefreshTokenDB.Delete on an ID that matches no
\* row fail, with NotFound whenever the statement reached the database, and leave
\* every row of the table unchanged.
C3_NoRowNotFound ==
    [][ /\ (Ready /\ last'.op \in {"UserUpdate", "UserDelete"}
                  /\ last'.id \notin {r.id : r \in users})
              => /\ users' = users
                 /\ last'.err # "nil"
                 /\ last'.ran => last'.err = "NotFound"
        /\ (Ready /\ last'.op = "TokenDelete"
                  /\ last'.id \notin {r.id : r \in tokens})
              => /\ tokens' = tokens
                 /\ last'.err # "nil"
                 /\ last'.ran => last'.err = "NotFound" ]_vars

C3_Witness ==
    /\ last.op = "UserUpdate"
    /\ last.err = "NotFound"
    /\ \E r \in users, u \in last.rec : r.email = u.Email
    /\ tokens # {}

\* C4 as stated: every successful UserDB.Update overwrites name, email and
\* password_hash, makes the stored updated_at strictly later than it was, and leaves
\* created_at and id unchanged.
C4_UpdateStrictlyLater ==
    [][ (Ready /\ last'.op = "UserUpdate" /\ last'.err = "nil") =>
          \A old \in users : old.id = last'.id =>
              \E new \in users' :
                  /\ new.id = old.id
                  /\ \A u \in last'.rec : /\ new.name = u.Name
                                          /\ new.email = u.Email
                                          /\ new.password_hash = u.PasswordHash
                  /\ new.updated_at > old.updated_at
                  /\ new.created_at = old.created_at ]_vars

\* C4 amended: every successful UserDB.Update matched an existing row, overwrites its
\* name, email and password_hash with the caller's values, sets the stored updated_at
\* to the clock reading Update took before it sent the statement (as the column stores
\* it), and leaves created_at, id and every other row unchanged, whatever CreatedAt
\* the caller's record carries.
C4_UpdateFrame ==
    [][ (Ready /\ last'.op = "UserUpdate" /\ last'.err = "nil") =>
          /\ \E old \in users : old.id = last'.id
          /\ \A old \in users, u \in last'.rec : old.id = last'.id =>
                /\ u.UpdatedAt \in 1..now
                /\ {r \in users' : r.id = old.id} =
                      {[id |-> old.id, name |-> u.Name, email |-> u.Email,
                        password_hash |-> u.PasswordHash,
                        created_at |-> old.created_at,
                        updated_at |-> ToTimestamp(u.UpdatedAt)]}
          /\ {r \in users' : r.id # last'.id} = {r \in users : r.id # last'.id} ]_vars

C4_Witness ==
    /\ last.op = "UserUpdate"
    /\ last.err = "nil"
    /\ \E r \in users, u \in last.rec :
          /\ r.id = u.ID
          /\ r.created_at # ToTimestamp(u.CreatedAt)
          /\ r.name = u.Name

\* C5 as stated: every Create, in either store, leaves in the caller's record a
\* non-zero ID that no other Create produced and CreatedAt equal to UpdatedAt.
C5_FreshIDEqualTimestamps ==
    last.op \in {"UserCreate", "TokenCreate"} =>
        \A u \in last.rec :
            /\ u.ID # NilUUID
            /\ u.ID \in 1..uuidCount
            /\ \A c \in inflight : c.rec.ID # u.ID \/ c.op = "UserUpdate"
            /\ last.op = "UserCreate" => u.ID \notin createdTokens \cup deletedTokens
            /\ last.op = "TokenCreate" => u.ID \notin createdUsers \cup deletedUsers
            /\ u.CreatedAt = u.UpdatedAt

\* C6 as stated: a successful lookup by secondary key returns the record the lookup
\* by ID returns for the row that holds that key, whatever other rows exist.
C6_SecondaryKeyAgrees ==
    /\ (last.op = "UserReadByEmail" /\ last.err = "nil") =>
          \A r \in users : r.email = last.key => last.out = {ScanUser(r)}
    /\ (last.op = "TokenReadByRefreshToken" /\ last.err = "nil") =>
          \A r \in tokens : r.refresh_token = last.key => last.out = {ScanToken(r)}

\* C7 as stated: after a successful TokenCache.Set the key token.ID holds
\* token.RefreshToken and lapses at ExpiresAt when ExpiresAt is in the future; when
\* ExpiresAt is not in the future the entry is absent or carries an expiry.
C7_SetTTL ==
    (last.op = "CacheSet" /\ last.err = "nil") =>
        \A token \in last.rec :
            LET entries == {e \in cache : e.key = UUIDString(token.ID)}
            IN  IF token.ExpiresAt > now
                THEN entries = {[key |-> UUIDString(token.ID),
                                 value |-> token.RefreshToken,
                                 expireAt |-> {token.ExpiresAt}]}
                ELSE \A e \in entries : e.expireAt # {}

\* C8: no two rows of users ever share an email; a Create, or an Update of an existing
\* row, whose email another row holds fails with PersistenceError and leaves the table
\* unchanged, in every interleaving of the callers' statements.
C8_EmailUnique ==
    [][ /\ \A r1, r2 \in users' : r1.email = r2.email => r1 = r2
        /\ (Ready /\ last'.op = "UserCreate"
                  /\ \E r \in users, u \in last'.rec : r.email = u.Email)
              => /\ last'.err = "PersistenceError"
                 /\ users' = users
        /\ (Ready /\ last'.op = "UserUpdate"
                  /\ \E r, m \in users, u \in last'.rec :
                        m.id = u.ID /\ r.id # u.ID /\ r.email = u.Email)
              => /\ last'.err = "PersistenceError"
                 /\ users' = users ]_vars

\* the failing Create began before the Create that inserted the row (its ID is the
\* older one) and reached the database after it: the two calls overlapped
C8_Witness ==
    /\ last.op = "UserCreate"
    /\ last.ran
    /\ last.err = "PersistenceError"
    /\ \E r \in users, u \in last.rec : r.email = u.Email /\ u.ID < r.id

\* C9: a step of RefreshTokenDB.Create or RefreshTokenDB.Delete leaves the cache as
\* Redis shows it at that instant, and TokenCache.Set leaves refresh_tokens unchanged.
C9_CacheUncoupled ==
    [][ /\ (\/ Ready /\ last'.op \in {"TokenCreate", "TokenDelete"}
            \/ \E c \in inflight' \ inflight : c.op = "TokenCreate")
              => cache' = Purge(cache, now')
        /\ (Ready /\ last'.op = "CacheSet") => tokens' = tokens ]_vars

\* the cache holds an unexpired entry, with an expiry ahead, for a deleted row
C9_Witness ==
    \E e \in cache, id \in deletedTokens :
        /\ e.key = UUIDString(id)
        /\ e.expireAt # {}
        /\ \A x \in e.expireAt : now < x
        /\ id \notin {r.id : r \in tokens}

\* C10: Create and Update write into the caller's record before the statement runs:
\* a call in flight already carries the ID and the clock readings, a failed Create
\* leaves a fresh ID and timestamps that match no row, and a failed Update leaves the
\* caller's UpdatedAt moved to the clock reading while no row changed.
C10_RecordWritten ==
    /\ \A c \in inflight :
          /\ c.op \in {"UserCreate", "TokenCreate"} =>
                /\ c.arg.ID = NilUUID /\ c.rec.ID # NilUUID
                /\ c.rec.CreatedAt > c.arg.CreatedAt
                /\ c.rec.UpdatedAt > c.arg.UpdatedAt
                /\ c.rec.ID \notin {r.id : r \in users} \cup {r.id : r \in tokens}
          /\ c.op = "UserUpdate" =>
                /\ c.rec.UpdatedAt >= c.arg.UpdatedAt
                /\ c.arg.UpdatedAt = ZeroTime => c.rec.UpdatedAt > c.arg.UpdatedAt
    /\ (last.op \in {"UserCreate", "TokenCreate"} /\ last.err # "nil") =>
          \A u \in last.rec, a \in last.arg :
              /\ a.ID = NilUUID /\ u.ID # NilUUID
              /\ u.CreatedAt > a.CreatedAt
              /\ u.UpdatedAt > a.UpdatedAt
              /\ u.ID \notin {r.id : r \in users} \cup {r.id : r \in tokens}
    /\ (last.op = "UserUpdate" /\ last.err # "nil") =>
          \A u \in last.rec, a \in last.arg :
              /\ u.UpdatedAt \in 1..now
              /\ u.UpdatedAt >= a.UpdatedAt
              /\ a.UpdatedAt = ZeroTime => u.UpdatedAt > a.UpdatedAt

C10_CallerRecordWrittenBeforeSQL ==
    [][ /\ C10_RecordWritten'
        /\ (Ready /\ last'.op \in {"UserCreate", "UserUpdate"} /\ last'.err # "nil")
              => users' = users
        /\ (Ready /\ last'.op = "TokenCreate" /\ last'.err # "nil")
              => tokens' = tokens ]_vars

C10_Witness ==
    /\ last.op = "UserCreate"
    /\ last.ran
    /\ last.err = "PersistenceError"
    /\ \E u \in last.rec : u.ID \notin {r.id : r \in users} /\ u.CreatedAt # u.UpdatedAt

====
